---------------------------- MODULE Spec2Model ----------------------------
(***************************************************************************)
(* Casino API (src/main.py): the player ledger, the bet history, and the   *)
(* roulette, slots and blackjack handlers, one action per HTTP handler.    *)
(*                                                                         *)
(* Money is counted in half-cents (0.005 chips): a request amount is a     *)
(* whole number of cents (an even number here), so that bet * 1.5 is a     *)
(* whole number of half-cents and round(x, 2) has something to round.      *)
(* A card is its place 1..52 in the deck as new_deck builds it, rank by    *)
(* rank and suit by suit; the code's string rank+suit is card_code(card)   *)
(* and its rank, card[:-1], is rank_of(card).                              *)
(***************************************************************************)
EXTENDS Integers, Sequences, FiniteSets, TLC

VARIABLES
    players,    \* db["player"]: player id -> document
    bethistory, \* db["bethistory"]: the documents in insertion order
    sessions,   \* db["blackjacksession"]: session id (index) -> document
    request,    \* the request handled last: its endpoint and payload
    response,   \* the response sent to it
    rounding,   \* round(x, 2) of the ties rounded so far: pairs <<x, result>>
    settled,    \* history variable: per session, what its first settle returned
    frame,      \* a call of hand_value in progress: its locals and its position
    inflight    \* the bet requests being handled at once: locals and position

vars == <<players, bethistory, sessions, request, response, rounding, settled,
          frame, inflight>>

-----------------------------------------------------------------------------
(* Bounds of the exploration *)

MaxHistory == 2

MaxSessions == 1

(* n chips in half-cents *)
Chips(n) == n * 200

(* The one player created, and an id that resolves to no document *)
PlayerIds == {"p1"}

UnknownId == "nobody"

(* Request amounts: 999.99 chips *)
Amounts == {Chips(1000) - 2}

-----------------------------------------------------------------------------
(* Stores *)

(* Optional values: None, or Some(v) *)
None == <<>>

Some(v) == <<v>>

(* database.create_document: insert the document, return its id *)
create_document(collection, data) == Append(collection, data)

(* round(x, 2). A value that is a whole number of cents is kept. A value   *)
(* ending in half a cent is a tie in decimal, and the float nearest to it  *)
(* lies on either side: round(0.015, 2) = 0.01, round(0.075000..1, 2) =    *)
(* 0.08, round(0.375, 2) = 0.38. Both neighbours are possible results.     *)
Round2(x) == IF x % 2 = 0 THEN {x} ELSE {x - 1, x + 1}

(* round is a function: a tie rounded before rounds the same way again *)
RoundsTo(x, r) ==
    /\ r \in Round2(x)
    /\ \A e \in rounding : e[1] = x => e[2] = r

Rounded(x, r) == IF x % 2 = 0 THEN {} ELSE {<<x, r>>}

(* new_balance and payout rounded to b and p *)
RoundBoth(new_balance, b, payout, p) ==
    /\ RoundsTo(new_balance, b)
    /\ RoundsTo(payout, p)
    /\ new_balance = payout => b = p
    /\ rounding' = rounding \cup Rounded(new_balance, b) \cup Rounded(payout, p)

(* HTTPException(status_code, detail) *)
HTTPException(status_code, detail) ==
    [kind |-> "error", status_code |-> status_code, detail |-> detail]

-----------------------------------------------------------------------------
(* Player endpoints *)

create_player(nickname) ==
    [nickname |-> nickname, balance |-> Chips(1000), vip_level |-> 0]

(* db["player"].find_one({"_id": id}) *)
find_player(player_id) ==
    IF player_id \in DOMAIN players THEN Some(players[player_id]) ELSE None

(* Faulty variant: the funds check tests for a debt instead of the stake *)
insufficient_balance_debt_only(player, amount) == player.balance < 0

(* if player["balance"] < amount: raise HTTPException(400, "Insufficient balance") *)
insufficient_balance(player, amount) == player.balance < amount

(* db["player"].update_one({"_id": id}, {"$set": {"balance": b}}) *)
set_balance(player_id, b) ==
    [players EXCEPT ![player_id].balance = b]

-----------------------------------------------------------------------------
(* Roulette *)

RedNumbers == {1,3,5,7,9,12,14,16,18,19,21,23,25,27,30,32,34,36}

colors(n) ==
    IF n = 0 THEN "green"
    ELSE IF n \in RedNumbers THEN "red" ELSE "black"

(* Faulty variant: the chain has no final else, every bet type passes *)
valid_bet_type_any(bet_type) == TRUE

(* The bet types the if/elif chain accepts; any other reaches its else *)
valid_bet_type(bet_type) == bet_type \in {"red", "black", "number"}

(* Faulty variant: a number win pays 36 x amount, the stake counted in *)
roulette_payout_gross(bet, result) ==
    IF bet.bet_type = "red" \/ bet.bet_type = "black"
    THEN IF colors(result) = bet.bet_type
         THEN [win |-> TRUE, payout |-> bet.amount]
         ELSE [win |-> FALSE, payout |-> 0 - bet.amount]
    ELSE IF Some(result) = bet.value
         THEN [win |-> TRUE, payout |-> bet.amount * 36]
         ELSE [win |-> FALSE, payout |-> 0 - bet.amount]

(* The signed payout of a valid bet, win flag included *)
roulette_payout(bet, result) ==
    IF bet.bet_type = "red" \/ bet.bet_type = "black"
    THEN IF colors(result) = bet.bet_type
         THEN [win |-> TRUE, payout |-> bet.amount]
         ELSE [win |-> FALSE, payout |-> 0 - bet.amount]
    ELSE IF Some(result) = bet.value
         THEN [win |-> TRUE, payout |-> bet.amount * 35]
         ELSE [win |-> FALSE, payout |-> 0 - bet.amount]

(* POST /bet/roulette with request `bet`, the wheel drawing `result` *)
bet_roulette(bet, result) ==
    LET found == find_player(bet.player_id)
        player == found[1]
    IN
    IF found = None
    THEN /\ response' = HTTPException(404, "Player not found")
         /\ UNCHANGED <<players, bethistory, sessions, rounding, settled>>
    ELSE IF insufficient_balance(player, bet.amount)
    THEN /\ response' = HTTPException(400, "Insufficient balance")
         /\ UNCHANGED <<players, bethistory, sessions, rounding, settled>>
    ELSE IF bet.bet_type = "number" /\ bet.value = None
    THEN /\ response' = HTTPException(400, "Value is required for number bet")
         /\ UNCHANGED <<players, bethistory, sessions, rounding, settled>>
    ELSE IF ~valid_bet_type(bet.bet_type)
    THEN /\ response' = HTTPException(400, "Invalid bet type")
         /\ UNCHANGED <<players, bethistory, sessions, rounding, settled>>
    ELSE LET payout == roulette_payout(bet, result).payout
             new_balance == player.balance + payout
         IN  /\ Len(bethistory) < MaxHistory
             /\ \E b \in Round2(new_balance), p \in Round2(payout) :
                  /\ RoundBoth(new_balance, b, payout, p)
                  /\ players' = set_balance(bet.player_id, b)
                  /\ bethistory' = create_document(bethistory,
                        [player_id |-> bet.player_id,
                         game |-> "roulette",
                         amount |-> bet.amount,
                         result |-> <<result, colors(result)>>,
                         payout |-> p,
                         metadata |-> [bet_type |-> bet.bet_type, value |-> bet.value]])
                  /\ response' = [kind |-> "roulette",
                                  result |-> result,
                                  color |-> colors(result),
                                  payout |-> p,
                                  balance |-> b]
             /\ UNCHANGED <<sessions, settled>>

-----------------------------------------------------------------------------
(* Slots *)

symbols == <<"cherries", "lemon", "bell", "star", "seven", "clover">>

SetOf(seq) == {seq[i] : i \in DOMAIN seq}

(* Faulty variant: three sevens are not told from three of a kind *)
payout_mult_no_jackpot(reels) ==
    IF Cardinality(SetOf(reels)) = 1 THEN 10
    ELSE IF Cardinality(SetOf(reels)) = 2 THEN 2
    ELSE 0

payout_mult(reels) ==
    IF Cardinality(SetOf(reels)) = 1
    THEN IF reels[1] = "seven" THEN 20 ELSE 10
    ELSE IF Cardinality(SetOf(reels)) = 2 THEN 2
    ELSE 0

(* Faulty variant: the stake is not subtracted *)
slots_payout_gross(amount, reels) == amount * payout_mult(reels)

(* payout = bet.amount * payout_mult - bet.amount *)
slots_payout(amount, reels) == amount * payout_mult(reels) - amount

(* POST /bet/slots with request `bet`, the reels stopping at `reels` *)
bet_slots(bet, reels) ==
    LET found == find_player(bet.player_id)
        player == found[1]
    IN
    IF found = None
    THEN /\ response' = HTTPException(404, "Player not found")
         /\ UNCHANGED <<players, bethistory, sessions, rounding, settled>>
    ELSE IF insufficient_balance(player, bet.amount)
    THEN /\ response' = HTTPException(400, "Insufficient balance")
         /\ UNCHANGED <<players, bethistory, sessions, rounding, settled>>
    ELSE LET payout == slots_payout(bet.amount, reels)
             new_balance == player.balance + payout
         IN  /\ Len(bethistory) < MaxHistory
             /\ \E b \in Round2(new_balance), p \in Round2(payout) :
                  /\ RoundBoth(new_balance, b, payout, p)
                  /\ players' = set_balance(bet.player_id, b)
                  /\ bethistory' = create_document(bethistory,
                        [player_id |-> bet.player_id,
                         game |-> "slots",
                         amount |-> bet.amount,
                         result |-> reels,
                         payout |-> p,
                         metadata |-> [reels |-> reels, mult |-> payout_mult(reels)]])
                  /\ response' = [kind |-> "slots",
                                  reels |-> reels,
                                  payout |-> p,
                                  balance |-> b]
             /\ UNCHANGED <<sessions, settled>>

-----------------------------------------------------------------------------
(* Deck and scoring *)

ranks == <<"A", "2", "3", "4", "5", "6", "7", "8", "9", "10", "J", "Q", "K">>

suits == <<"S", "H", "D", "C">>

(* [f"{r}{s}" for r in ranks for s in suits], before the shuffle: the    *)
(* card at place k is the k-th code built                                *)
ordered_deck == [k \in 1..(Len(ranks) * Len(suits)) |-> k]

(* card[:-1] *)
rank_of(card) == ranks[((card - 1) \div Len(suits)) + 1]

suit_of(card) == suits[((card - 1) % Len(suits)) + 1]

card_code(card) == <<rank_of(card), suit_of(card)>>

(* The card f"{rank}{suit}" *)
card_at(rank, suit) ==
    CHOOSE k \in DOMAIN ordered_deck : rank_of(k) = rank /\ suit_of(k) = suit

values(rank) ==
    CASE rank = "A" -> 11
      [] rank \in {"K", "Q", "J", "10"} -> 10
      [] rank = "9" -> 9
      [] rank = "8" -> 8
      [] rank = "7" -> 7
      [] rank = "6" -> 6
      [] rank = "5" -> 5
      [] rank = "4" -> 4
      [] rank = "3" -> 3
      [] rank = "2" -> 2

RECURSIVE sum_values(_)
sum_values(hand) ==
    IF hand = <<>> THEN 0 ELSE values(rank_of(Head(hand))) + sum_values(Tail(hand))

count_aces(hand) == Cardinality({i \in DOMAIN hand : rank_of(hand[i]) = "A"})

(* while total > 21 and aces: total -= 10; aces -= 1 *)
RECURSIVE reduce_aces(_, _)
reduce_aces(total, aces) ==
    IF total > 21 /\ aces > 0 THEN reduce_aces(total - 10, aces - 1) ELSE total

hand_value(hand) == reduce_aces(sum_values(hand), count_aces(hand))

(* list.pop(): the last element, and the list without it *)
pop_card(deck) == deck[Len(deck)]

(* Faulty variant: deck[-1] read in place of deck.pop(), the card stays *)
pop_rest_kept(deck) == deck

pop_rest(deck) == SubSeq(deck, 1, Len(deck) - 1)

-----------------------------------------------------------------------------
(* Blackjack *)

(* The placeholder shown for the dealer's second card *)
Hidden == 0

(* Faulty variant: the dealer also draws at 17 *)
dealer_draws_at_17(dealer_hand) == hand_value(dealer_hand) <= 17

(* The dealer's rule: draw below 17 *)
dealer_draws(dealer_hand) == hand_value(dealer_hand) < 17

(* Faulty variant: the loop tests after the draw, the dealer always takes *)
(* a card                                                                 *)
RECURSIVE dealer_draw_on(_, _)
dealer_draw_on(deck, dealer_hand) ==
    IF hand_value(dealer_hand) < 17
    THEN dealer_draw_on(pop_rest(deck), Append(dealer_hand, pop_card(deck)))
    ELSE [deck |-> deck, dealer_hand |-> dealer_hand]

dealer_draw_first(deck, dealer_hand) ==
    dealer_draw_on(pop_rest(deck), Append(dealer_hand, pop_card(deck)))

(* while hand_value(dealer_hand) < 17: dealer_hand.append(deck.pop()) *)
RECURSIVE dealer_draw(_, _)
dealer_draw(deck, dealer_hand) ==
    IF dealer_draws(dealer_hand)
    THEN dealer_draw(pop_rest(deck), Append(dealer_hand, pop_card(deck)))
    ELSE [deck |-> deck, dealer_hand |-> dealer_hand]

(* Faulty variant: the two-card 21s are looked at before the busts *)
blackjack_result_naturals_first(bet, player_hand, dealer_hand) ==
    LET p_val == hand_value(player_hand)
        d_val == hand_value(dealer_hand)
    IN
    IF p_val = 21 /\ Len(player_hand) = 2 /\ ~(d_val = 21 /\ Len(dealer_hand) = 2)
    THEN [payout |-> (bet * 3) \div 2, result |-> "player_blackjack"]
    ELSE IF d_val = 21 /\ Len(dealer_hand) = 2 /\ ~(p_val = 21 /\ Len(player_hand) = 2)
    THEN [payout |-> 0 - bet, result |-> "dealer_blackjack"]
    ELSE IF p_val > 21
    THEN [payout |-> 0 - bet, result |-> "player_bust"]
    ELSE IF d_val > 21
    THEN [payout |-> bet, result |-> "dealer_bust"]
    ELSE IF p_val > d_val
    THEN [payout |-> bet, result |-> "player_win"]
    ELSE IF p_val < d_val
    THEN [payout |-> 0 - bet, result |-> "dealer_win"]
    ELSE [payout |-> 0, result |-> "push"]

(* Faulty variant: a 21 counts as a blackjack whatever the number of cards *)
blackjack_result_any_21(bet, player_hand, dealer_hand) ==
    LET p_val == hand_value(player_hand)
        d_val == hand_value(dealer_hand)
    IN
    IF p_val > 21
    THEN [payout |-> 0 - bet, result |-> "player_bust"]
    ELSE IF d_val > 21
    THEN [payout |-> bet, result |-> "dealer_bust"]
    ELSE IF p_val = 21 /\ ~(d_val = 21)
    THEN [payout |-> (bet * 3) \div 2, result |-> "player_blackjack"]
    ELSE IF d_val = 21 /\ ~(p_val = 21)
    THEN [payout |-> 0 - bet, result |-> "dealer_blackjack"]
    ELSE IF p_val > d_val
    THEN [payout |-> bet, result |-> "player_win"]
    ELSE IF p_val < d_val
    THEN [payout |-> 0 - bet, result |-> "dealer_win"]
    ELSE [payout |-> 0, result |-> "push"]

(* The result and the payout settle decides for the final hands *)
blackjack_result(bet, player_hand, dealer_hand) ==
    LET p_val == hand_value(player_hand)
        d_val == hand_value(dealer_hand)
    IN
    IF p_val > 21
    THEN [payout |-> 0 - bet, result |-> "player_bust"]
    ELSE IF d_val > 21
    THEN [payout |-> bet, result |-> "dealer_bust"]
    ELSE IF p_val = 21 /\ Len(player_hand) = 2 /\ ~(d_val = 21 /\ Len(dealer_hand) = 2)
    THEN [payout |-> (bet * 3) \div 2, result |-> "player_blackjack"]
    ELSE IF d_val = 21 /\ Len(dealer_hand) = 2 /\ ~(p_val = 21 /\ Len(player_hand) = 2)
    THEN [payout |-> 0 - bet, result |-> "dealer_blackjack"]
    ELSE IF p_val > d_val
    THEN [payout |-> bet, result |-> "player_win"]
    ELSE IF p_val < d_val
    THEN [payout |-> 0 - bet, result |-> "dealer_win"]
    ELSE [payout |-> 0, result |-> "push"]

(* settle_blackjack(session_id), called with the session collection as    *)
(* the calling handler left it (store) and the history variable as it     *)
(* stands for that collection (firsts); started: the caller is start,     *)
(* which returns {"session_id": session_id, **outcome}                    *)
settle_blackjack(store, firsts, session_id, started) ==
    LET session == store[session_id]
        player == players[session.player_id]
        bet == session.bet
        drawn == dealer_draw(session.deck, session.dealer_hand)
        deck == drawn.deck
        player_hand == session.player_hand
        dealer_hand == drawn.dealer_hand
        decided == blackjack_result(bet, player_hand, dealer_hand)
        payout == decided.payout
        new_balance == player.balance + payout
    IN  /\ Len(bethistory) < MaxHistory
        /\ \E b \in Round2(new_balance), p \in Round2(payout) :
             LET outcome == [kind |-> "blackjack",
                             player_hand |-> player_hand,
                             dealer_hand |-> dealer_hand,
                             p_val |-> hand_value(player_hand),
                             d_val |-> hand_value(dealer_hand),
                             result |-> decided.result,
                             payout |-> p,
                             balance |-> b,
                             status |-> "finished"]
             IN  /\ RoundBoth(new_balance, b, payout, p)
                 /\ players' = set_balance(session.player_id, b)
                 /\ sessions' = [store EXCEPT ![session_id] =
                        [@ EXCEPT !.deck = deck,
                                  !.dealer_hand = dealer_hand,
                                  !.status = "finished"]]
                 /\ bethistory' = create_document(bethistory,
                        [player_id |-> session.player_id,
                         game |-> "blackjack",
                         amount |-> bet,
                         result |-> decided.result,
                         payout |-> p,
                         metadata |-> [player_hand |-> player_hand,
                                       dealer_hand |-> dealer_hand,
                                       p_val |-> hand_value(player_hand),
                                       d_val |-> hand_value(dealer_hand)]])
                 /\ response' = IF started
                                THEN [session_id |-> session_id] @@ outcome
                                ELSE outcome
                 /\ settled' = IF firsts[session_id] = None
                               THEN [firsts EXCEPT ![session_id] = Some(outcome)]
                               ELSE firsts

(* Faulty variant: only the player's hand is looked at *)
natural_dealt_to_player(player_hand, dealer_hand) == hand_value(player_hand) = 21

(* if p_val == 21 or d_val == 21 *)
natural_dealt(player_hand, dealer_hand) ==
    hand_value(player_hand) = 21 \/ hand_value(dealer_hand) = 21

(* POST /blackjack/start with request `data`, new_deck() returning one of *)
(* `decks`                                                                *)
blackjack_start(data, decks) ==
    LET found == find_player(data.player_id)
        player == found[1]
    IN
    IF found = None
    THEN /\ response' = HTTPException(404, "Player not found")
         /\ UNCHANGED <<players, bethistory, sessions, rounding, settled>>
    ELSE IF insufficient_balance(player, data.amount)
    THEN /\ response' = HTTPException(400, "Insufficient balance")
         /\ UNCHANGED <<players, bethistory, sessions, rounding, settled>>
    ELSE \E deck \in decks :
         LET n == Len(deck)
             player_hand == <<deck[n], deck[n - 1]>>
             dealer_hand == <<deck[n - 2], deck[n - 3]>>
             session == [player_id |-> data.player_id,
                         bet |-> data.amount,
                         deck |-> SubSeq(deck, 1, n - 4),
                         player_hand |-> player_hand,
                         dealer_hand |-> dealer_hand,
                         status |-> "playing"]
             session_id == Len(sessions) + 1
         IN  /\ Len(sessions) < MaxSessions
             /\ IF natural_dealt(player_hand, dealer_hand)
                THEN settle_blackjack(create_document(sessions, session),
                                      Append(settled, None), session_id, TRUE)
                ELSE /\ sessions' = create_document(sessions, session)
                     /\ settled' = Append(settled, None)
                     /\ response' = [kind |-> "blackjack",
                                     session_id |-> session_id,
                                     player_hand |-> player_hand,
                                     dealer_hand |-> <<dealer_hand[1], Hidden>>,
                                     status |-> "playing"]
                     /\ UNCHANGED <<players, bethistory, rounding>>

(* Faulty variant: hit does not look at the status *)
not_playing_ignored(session) == FALSE

(* if session.get("status") != "playing" *)
not_playing(session) == session.status # "playing"

(* Faulty variant: a hand of 21 is settled as if it were over 21 *)
player_bust_at_21(player_hand) == hand_value(player_hand) >= 21

(* if hand_value(player_hand) > 21 *)
player_bust(player_hand) == hand_value(player_hand) > 21

(* POST /blackjack/hit *)
blackjack_hit(data) ==
    IF data.session_id \notin DOMAIN sessions
    THEN /\ response' = HTTPException(404, "Session not found")
         /\ UNCHANGED <<players, bethistory, sessions, rounding, settled>>
    ELSE LET session == sessions[data.session_id] IN
         IF not_playing(session)
         THEN settle_blackjack(sessions, settled, data.session_id, FALSE)
         ELSE LET deck == pop_rest(session.deck)
                  player_hand == Append(session.player_hand, pop_card(session.deck))
                  updated == [sessions EXCEPT ![data.session_id] =
                                 [@ EXCEPT !.deck = deck, !.player_hand = player_hand]]
              IN  IF player_bust(player_hand)
                  THEN settle_blackjack(updated, settled, data.session_id, FALSE)
                  ELSE /\ sessions' = updated
                       /\ response' = [kind |-> "blackjack",
                                       session_id |-> data.session_id,
                                       player_hand |-> player_hand,
                                       dealer_hand |-> <<session.dealer_hand[1], Hidden>>,
                                       status |-> "playing"]
                       /\ UNCHANGED <<players, bethistory, rounding, settled>>

(* POST /blackjack/stand *)
blackjack_stand(data) ==
    IF data.session_id \notin DOMAIN sessions
    THEN /\ response' = HTTPException(404, "Session not found")
         /\ UNCHANGED <<players, bethistory, sessions, rounding, settled>>
    ELSE settle_blackjack(sessions, settled, data.session_id, FALSE)

-----------------------------------------------------------------------------
(* The shuffles explored: the four cards start deals run over every       *)
(* sequence of ShuffleRanks, each rank taking its suits in order; the     *)
(* cards below them keep the order the deck was built in.                 *)

ShuffleRanks == {"A", "K", "7", "4"}

deal_cards(rs) ==
    [i \in DOMAIN rs |->
        card_at(rs[i], suits[1 + Cardinality({j \in 1..(i - 1) : rs[j] = rs[i]})])]

Reverse(seq) == [i \in DOMAIN seq |-> seq[Len(seq) + 1 - i]]

shuffle_dealing(top) ==
    LET below(card) == card \notin SetOf(top)
    IN  SelectSeq(ordered_deck, below) \o Reverse(top)

rank_index(r) == CHOOSE i \in DOMAIN ranks : ranks[i] = r

(* One deal per pair of hands: a hand's two cards in rank order *)
Deals ==
    {rs \in [1..4 -> ShuffleRanks] :
        /\ rank_index(rs[1]) <= rank_index(rs[2])
        /\ rank_index(rs[3]) <= rank_index(rs[4])}

new_deck == {shuffle_dealing(deal_cards(rs)) : rs \in Deals}

-----------------------------------------------------------------------------
(* Requests and draws *)

RouletteBets ==
    [player_id : PlayerIds \cup {UnknownId}, amount : Amounts,
     bet_type : {"red", "black"}, value : {None}]
    \cup [player_id : PlayerIds, amount : Amounts,
          bet_type : {"number"}, value : {None, Some(0), Some(1)}]
    \cup [player_id : PlayerIds, amount : Amounts,
          bet_type : {"green"}, value : {None}]

Spins == {0, 1, 2}

SlotsBets == [player_id : PlayerIds \cup {UnknownId}, amount : Amounts]

ReelDraws ==
    {<<"seven", "seven", "seven">>, <<"bell", "bell", "bell">>,
     <<"bell", "seven", "bell">>, <<"cherries", "lemon", "bell">>}

BlackjackStarts == [player_id : PlayerIds \cup {UnknownId}, amount : Amounts]

BlackjackActions == [session_id : 1..(MaxSessions + 1)]

-----------------------------------------------------------------------------
(* The API: one player created, then requests one at a time *)

Init ==
    /\ players = [p \in PlayerIds |-> create_player(p)]
    /\ bethistory = <<>>
    /\ sessions = <<>>
    /\ request = [op |-> "create_player", data |-> [nickname |-> "p1"]]
    /\ response = [kind |-> "player"]
    /\ rounding = {}
    /\ settled = <<>>
    /\ frame = None
    /\ inflight = <<>>

Roulette ==
    \E bet \in RouletteBets, result \in Spins :
        /\ request' = [op |-> "roulette", data |-> bet]
        /\ bet_roulette(bet, result)
        /\ UNCHANGED <<frame, inflight>>

Slots ==
    \E bet \in SlotsBets, reels \in ReelDraws :
        /\ request' = [op |-> "slots", data |-> bet]
        /\ bet_slots(bet, reels)
        /\ UNCHANGED <<frame, inflight>>

Start ==
    \E data \in BlackjackStarts :
        /\ request' = [op |-> "start", data |-> data]
        /\ blackjack_start(data, new_deck)
        /\ UNCHANGED <<frame, inflight>>

Hit ==
    \E data \in BlackjackActions :
        /\ request' = [op |-> "hit", data |-> data]
        /\ blackjack_hit(data)
        /\ UNCHANGED <<frame, inflight>>

Stand ==
    \E data \in BlackjackActions :
        /\ request' = [op |-> "stand", data |-> data]
        /\ blackjack_stand(data)
        /\ UNCHANGED <<frame, inflight>>

Next == Roulette \/ Slots \/ Start \/ Hit \/ Stand

Spec == Init /\ [][Next]_vars

-----------------------------------------------------------------------------
(* The tables alone, over every draw: random.randint(0, 36) for the wheel, *)
(* three random.choice(symbols) for the reels                              *)

Wheel == 0..36

WheelBets ==
    [player_id : PlayerIds, amount : Amounts,
     bet_type : {"red", "black"}, value : {None}]
    \cup [player_id : PlayerIds, amount : Amounts,
          bet_type : {"number"}, value : {Some(0), Some(18), Some(36)}]

RouletteWheel ==
    \E bet \in WheelBets, result \in Wheel :
        /\ request' = [op |-> "roulette", data |-> bet]
        /\ bet_roulette(bet, result)
        /\ UNCHANGED <<frame, inflight>>

SpecRoulette == Init /\ [][RouletteWheel]_vars

Reels == [1..3 -> SetOf(symbols)]

SlotsSpin ==
    \E bet \in [player_id : PlayerIds, amount : Amounts], reels \in Reels :
        /\ request' = [op |-> "slots", data |-> bet]
        /\ bet_slots(bet, reels)
        /\ UNCHANGED <<frame, inflight>>

SpecSlots == Init /\ [][SlotsSpin]_vars

-----------------------------------------------------------------------------
(* hand_value(hand), statement by statement: the for loop over the cards, *)
(* the while loop over the aces, the return                               *)

(* The hands scored: up to MaxHand cards out of HandCards, no card twice  *)
MaxHand == 4

HandCards ==
    {card_at("A", "S"), card_at("A", "H"), card_at("A", "D"), card_at("A", "C"),
     card_at("9", "S"), card_at("K", "S"), card_at("5", "S"), card_at("7", "S")}

Hands ==
    UNION {{h \in [1..n -> HandCards] : \A i, j \in 1..n : i # j => h[i] # h[j]}
           : n \in 0..MaxHand}

(* total = 0; aces = 0 *)
hand_value_call(hand) ==
    [hand |-> hand, i |-> 1, total |-> 0, aces |-> 0, pc |-> "for"]

(* for card in hand: total += values[rank]; if rank == "A": aces += 1 *)
hand_value_for ==
    /\ frame # None
    /\ frame.pc = "for"
    /\ frame' = IF frame.i <= Len(frame.hand)
                THEN LET rank == rank_of(frame.hand[frame.i]) IN
                     [frame EXCEPT !.total = @ + values(rank),
                                   !.aces = IF rank = "A" THEN @ + 1 ELSE @,
                                   !.i = @ + 1]
                ELSE [frame EXCEPT !.pc = "while"]

(* Faulty variant: an if in place of the while, one ace re-counted at most *)
hand_value_if ==
    /\ frame # None
    /\ frame.pc = "while"
    /\ frame' = IF frame.total > 21 /\ frame.aces > 0
                THEN [frame EXCEPT !.total = @ - 10, !.aces = @ - 1, !.pc = "return"]
                ELSE [frame EXCEPT !.pc = "return"]

(* while total > 21 and aces: total -= 10; aces -= 1 *)
hand_value_while ==
    /\ frame # None
    /\ frame.pc = "while"
    /\ frame' = IF frame.total > 21 /\ frame.aces > 0
                THEN [frame EXCEPT !.total = @ - 10, !.aces = @ - 1]
                ELSE [frame EXCEPT !.pc = "return"]

InitHandValue ==
    /\ players = [p \in PlayerIds |-> create_player(p)]
    /\ bethistory = <<>>
    /\ sessions = <<>>
    /\ request = [op |-> "hand_value"]
    /\ response = [kind |-> "none"]
    /\ rounding = {}
    /\ settled = <<>>
    /\ frame \in {hand_value_call(hand) : hand \in Hands}
    /\ inflight = <<>>

NextHandValue ==
    /\ hand_value_for \/ hand_value_while
    /\ UNCHANGED <<players, bethistory, sessions, request, response, rounding,
                   settled, inflight>>

(* The call runs to its end: nothing else is scheduled in between *)
SpecHandValue ==
    InitHandValue /\ [][NextHandValue]_vars /\ WF_vars(NextHandValue)

-----------------------------------------------------------------------------
(* Vocabulary of the properties *)

Balance(player_id) == players[player_id].balance

IsError(r, status_code, detail) == r = HTTPException(status_code, detail)

IsFinished(r) == r.kind = "blackjack" /\ r.status = "finished"

(* The blackjack records of the history *)
BlackjackRecords == {i \in DOMAIN bethistory : bethistory[i].game = "blackjack"}

(* Two settle outcomes with the same hands, totals and result *)
SameTerminalResult(a, b) ==
    /\ a.player_hand = b.player_hand
    /\ a.dealer_hand = b.dealer_hand
    /\ a.p_val = b.p_val
    /\ a.d_val = b.d_val
    /\ a.result = b.result

(* bet * 1.5 *)
ThreeToTwo(bet) == (bet * 3) \div 2

-----------------------------------------------------------------------------
(* C1: a stand on a session that is already finished returns the terminal *)
(* result of the first settlement, draws no further dealer card and       *)
(* leaves the player's balance as it was.                                 *)
C1_StandOnFinishedPaysNothing ==
    [][\A data \in BlackjackActions :
        (/\ request' = [op |-> "stand", data |-> data]
         /\ data.session_id \in DOMAIN sessions
         /\ sessions[data.session_id].status = "finished")
        => (/\ IsFinished(response')
            /\ SameTerminalResult(response', settled[data.session_id][1])
            /\ sessions'[data.session_id].dealer_hand
                 = sessions[data.session_id].dealer_hand
            /\ players' = players)]_vars

(* C2: the stored balance of a player is never negative. *)
C2_BalanceNeverNegative == \A p \in DOMAIN players : Balance(p) >= 0

(* C3: when start deals the player a two-card 21 and the dealer two cards *)
(* that do not total 21, start settles with result player_blackjack, the  *)
(* payout is 1.5 x bet and the balance grows by 1.5 x bet.                *)
C3_NaturalPaysThreeToTwo ==
    [][\A data \in BlackjackStarts :
        (/\ request' = [op |-> "start", data |-> data]
         /\ Len(sessions') = Len(sessions) + 1
         /\ hand_value(sessions'[Len(sessions')].player_hand) = 21
         /\ hand_value(SubSeq(sessions'[Len(sessions')].dealer_hand, 1, 2)) # 21)
        => (/\ IsFinished(response')
            /\ response'.result = "player_blackjack"
            /\ response'.payout \in Round2(ThreeToTwo(data.amount))
            /\ Balance(data.player_id)'
                 \in Round2(Balance(data.player_id) + ThreeToTwo(data.amount)))]_vars

(* C4: a roulette bet, a slots bet or a blackjack start for more than the *)
(* player's balance is rejected with the insufficient-balance error, and  *)
(* the balance, the history and the sessions stay as they were.           *)
C4_InsufficientFundsRejected ==
    [][(/\ request'.op \in {"roulette", "slots", "start"}
        /\ request'.data.player_id \in DOMAIN players
        /\ Balance(request'.data.player_id) < request'.data.amount)
       => (/\ IsError(response', 400, "Insufficient balance")
           /\ UNCHANGED <<players, bethistory, sessions>>)]_vars

C4_Witness ==
    /\ request.op = "start"
    /\ request.data.player_id \in DOMAIN players
    /\ Balance(request.data.player_id) < request.data.amount
    /\ IsError(response, 400, "Insufficient balance")
    /\ bethistory # <<>>

(* C5: each roulette or slots bet that succeeds appends one record, the   *)
(* blackjack sessions have at most one record each, and the records       *)
(* already in the history are never modified or removed.                  *)
C5_OneRecordPerResolvedBet ==
    [][/\ Cardinality(BlackjackRecords') <= Len(sessions')
       /\ response'.kind \in {"roulette", "slots"}
            => Len(bethistory') = Len(bethistory) + 1
       /\ Len(bethistory') >= Len(bethistory)
       /\ SubSeq(bethistory', 1, Len(bethistory)) = bethistory]_vars

(* C6: a hit on a session that is not playing is answered, not refused:  *)
(* it adds no card to the player's hand, takes no card from the deck, and *)
(* returns status finished with the hands, totals and result of the       *)
(* settlement that finished the session.                                  *)
C6_HitOnFinishedReturnsFinalState ==
    [][\A data \in BlackjackActions :
        (/\ request' = [op |-> "hit", data |-> data]
         /\ data.session_id \in DOMAIN sessions
         /\ sessions[data.session_id].status # "playing")
        => (/\ IsFinished(response')
            /\ sessions'[data.session_id].player_hand
                 = sessions[data.session_id].player_hand
            /\ sessions'[data.session_id].deck = sessions[data.session_id].deck
            /\ settled[data.session_id] # None
            /\ SameTerminalResult(response', settled[data.session_id][1]))]_vars

C6_Witness ==
    /\ request.op = "hit"
    /\ IsFinished(response)
    /\ Len(sessions) = 1
    /\ Cardinality(BlackjackRecords) = 2
    /\ Len(sessions[1].player_hand) = 3

(* C7: the dealer hand of a settled session has value 17 or more, and     *)
(* every card the dealer drew was drawn on a hand of value below 17.      *)
C7_DealerDrawsBelow17Only ==
    \A i \in DOMAIN sessions :
        sessions[i].status = "finished" =>
            LET hand == sessions[i].dealer_hand IN
            /\ hand_value(hand) >= 17
            /\ \A k \in 2..(Len(hand) - 1) : hand_value(SubSeq(hand, 1, k)) < 17

C7_Witness ==
    \E i \in DOMAIN sessions :
        /\ sessions[i].status = "finished"
        /\ Len(sessions[i].dealer_hand) = 4
        /\ Cardinality(BlackjackRecords) = 2

(* The outcome a history record tells *)
Won(rec) ==
    CASE rec.game = "roulette" ->
            \/ rec.metadata.bet_type \in {"red", "black"}
                 /\ rec.result[2] = rec.metadata.bet_type
            \/ rec.metadata.bet_type = "number"
                 /\ rec.metadata.value = Some(rec.result[1])
      [] rec.game = "slots" -> Cardinality(SetOf(rec.result)) < 3
      [] rec.game = "blackjack" ->
            rec.result \in {"dealer_bust", "player_blackjack", "player_win"}

Pushed(rec) == rec.game = "blackjack" /\ rec.result = "push"

(* The payout before round(payout, 2): only 1.5 x bet can fall between    *)
(* two cents                                                              *)
RawPayout(rec) ==
    IF rec.game = "blackjack" /\ rec.result = "player_blackjack"
    THEN ThreeToTwo(rec.amount)
    ELSE rec.payout

(* C8: every step that resolves a bet stores the balance it read plus the *)
(* payout, rounded to cents, and the payout is positive on a win,         *)
(* negative on a loss and zero on a blackjack push only.                  *)
C8_BalanceMovesByPayout ==
    [][Len(bethistory') > Len(bethistory) =>
        LET rec == bethistory'[Len(bethistory')] IN
        /\ Len(bethistory') = Len(bethistory) + 1
        /\ rec.payout \in Round2(RawPayout(rec))
        /\ players'[rec.player_id].balance
             \in Round2(Balance(rec.player_id) + RawPayout(rec))
        /\ response'.payout = rec.payout
        /\ response'.balance = players'[rec.player_id].balance
        /\ Pushed(rec) => rec.payout = 0
        /\ ~Pushed(rec) /\ Won(rec) => rec.payout > 0
        /\ ~Pushed(rec) /\ ~Won(rec) => rec.payout < 0]_vars

C8_Witness ==
    /\ Len(bethistory) = 2
    /\ bethistory[1].game = "slots"
    /\ bethistory[1].payout > 0
    /\ bethistory[2].game = "blackjack"
    /\ bethistory[2].result = "player_blackjack"
    /\ bethistory[2].payout # RawPayout(bethistory[2])

InvalidRouletteBet(bet) ==
    \/ bet.bet_type \notin {"red", "black", "number"}
    \/ bet.bet_type = "number" /\ bet.value = None

(* C9: a roulette bet of a type other than red, black or number, or a     *)
(* number bet without a number, is answered with an error and changes     *)
(* neither the balance nor the history; when the player exists and can    *)
(* cover the stake, the error is the validation error of that defect.     *)
C9_InvalidRouletteBetRejected ==
    [][(request'.op = "roulette" /\ InvalidRouletteBet(request'.data))
       => LET bet == request'.data IN
          /\ response'.kind = "error"
          /\ response'.status_code \in {400, 404}
          /\ UNCHANGED <<players, bethistory, sessions>>
          /\ (bet.player_id \in DOMAIN players /\ Balance(bet.player_id) >= bet.amount)
               => IF bet.bet_type = "number"
                  THEN IsError(response', 400, "Value is required for number bet")
                  ELSE IsError(response', 400, "Invalid bet type")]_vars

C9_Witness ==
    /\ request.op = "roulette"
    /\ request.data.bet_type \notin {"red", "black", "number"}
    /\ IsError(response, 400, "Invalid bet type")
    /\ bethistory # <<>>

(* The result and payout the five rules give, each rule with the rules    *)
(* before it excluded                                                     *)
RuleOutcome(bet, player_hand, dealer_hand) ==
    LET p == hand_value(player_hand)
        d == hand_value(dealer_hand)
        p21 == p = 21 /\ Len(player_hand) = 2
        d21 == d = 21 /\ Len(dealer_hand) = 2
    IN  CASE p > 21 -> <<"player_bust", 0 - bet>>
          [] p <= 21 /\ d > 21 -> <<"dealer_bust", bet>>
          [] p <= 21 /\ d <= 21 /\ p21 /\ ~d21 -> <<"player_blackjack", ThreeToTwo(bet)>>
          [] p <= 21 /\ d <= 21 /\ d21 /\ ~p21 -> <<"dealer_blackjack", 0 - bet>>
          [] p <= 21 /\ d <= 21 /\ (p21 <=> d21) /\ p > d -> <<"player_win", bet>>
          [] p <= 21 /\ d <= 21 /\ (p21 <=> d21) /\ p < d -> <<"dealer_win", 0 - bet>>
          [] p <= 21 /\ d <= 21 /\ (p21 <=> d21) /\ p = d -> <<"push", 0>>

(* C10: every settlement decides result and payout by the five rules in   *)
(* their order, on the hands it recorded.                                 *)
C10_SettleFollowsRules ==
    \A i \in BlackjackRecords :
        LET rec == bethistory[i]
            rule == RuleOutcome(rec.amount, rec.metadata.player_hand,
                                rec.metadata.dealer_hand)
        IN  /\ rec.result = rule[1]
            /\ rec.payout \in Round2(rule[2])

C10_Witness ==
    \E i \in BlackjackRecords :
        /\ bethistory[i].result = "dealer_bust"
        /\ hand_value(bethistory[i].metadata.player_hand) = 21
        /\ Len(bethistory[i].metadata.player_hand) = 2

-----------------------------------------------------------------------------
(* bet_roulette and bet_slots, statement by statement, for requests       *)
(* handled at the same time: each request w has its own locals in         *)
(* inflight[w] and shares the stores                                      *)

(* The number of requests handled at once *)
Concurrent == 2

RaceBets ==
    [op : {"roulette"}, player_id : PlayerIds, amount : Amounts,
     bet_type : {"red", "number"}, value : {None}]
    \cup [op : {"slots"}, player_id : PlayerIds, amount : Amounts,
          bet_type : {"none"}, value : {None}]

bet_call(bet) ==
    [bet |-> bet, pc |-> "find", player |-> None, payout |-> 0,
     draw |-> None, balance |-> None, response |-> None]

(* player = db["player"].find_one({"_id": ObjectId(bet.player_id)}) *)
bet_find(w) ==
    /\ inflight[w].pc = "find"
    /\ inflight' = [inflight EXCEPT ![w].player = find_player(inflight[w].bet.player_id),
                                    ![w].pc = "check"]
    /\ UNCHANGED <<players, bethistory, rounding>>

(* Faulty variant: the funds check is left out *)
bet_check_missing(w) ==
    /\ inflight[w].pc = "check"
    /\ inflight' = [inflight EXCEPT ![w].pc = "play"]
    /\ UNCHANGED <<players, bethistory, rounding>>

(* if not player: raise 404; if player["balance"] < bet.amount: raise 400 *)
bet_check(w) ==
    /\ inflight[w].pc = "check"
    /\ inflight' =
          IF inflight[w].player = None
          THEN [inflight EXCEPT ![w].pc = "raised",
                   ![w].response = Some(HTTPException(404, "Player not found"))]
          ELSE IF insufficient_balance(inflight[w].player[1], inflight[w].bet.amount)
          THEN [inflight EXCEPT ![w].pc = "raised",
                   ![w].response = Some(HTTPException(400, "Insufficient balance"))]
          ELSE [inflight EXCEPT ![w].pc = "play"]
    /\ UNCHANGED <<players, bethistory, rounding>>

(* The draw and the payout: lines 123-145 of roulette, 179-192 of slots *)
bet_play(w) ==
    LET bet == inflight[w].bet IN
    /\ inflight[w].pc = "play"
    /\ IF bet.op = "roulette"
       THEN \E result \in Spins :
              inflight' =
                IF bet.bet_type = "number" /\ bet.value = None
                THEN [inflight EXCEPT ![w].pc = "raised",
                         ![w].response = Some(HTTPException(400,
                                            "Value is required for number bet"))]
                ELSE IF ~valid_bet_type(bet.bet_type)
                THEN [inflight EXCEPT ![w].pc = "raised",
                         ![w].response = Some(HTTPException(400, "Invalid bet type"))]
                ELSE [inflight EXCEPT ![w].pc = "update",
                         ![w].draw = Some(result),
                         ![w].payout = roulette_payout(bet, result).payout]
       ELSE \E reels \in ReelDraws :
              inflight' = [inflight EXCEPT ![w].pc = "update",
                              ![w].draw = Some(reels),
                              ![w].payout = slots_payout(bet.amount, reels)]
    /\ UNCHANGED <<players, bethistory, rounding>>

(* new_balance = player["balance"] + payout; update_one(... round(new_balance, 2)) *)
bet_update(w) ==
    LET bet == inflight[w].bet
        payout == inflight[w].payout
        new_balance == inflight[w].player[1].balance + payout
    IN  /\ inflight[w].pc = "update"
        /\ \E b \in Round2(new_balance), p \in Round2(payout) :
             /\ RoundBoth(new_balance, b, payout, p)
             /\ players' = set_balance(bet.player_id, b)
             /\ inflight' = [inflight EXCEPT ![w].pc = "insert",
                                             ![w].payout = p,
                                             ![w].balance = Some(b)]
        /\ UNCHANGED bethistory

(* create_document("bethistory", {...}); return {...} *)
bet_insert(w) ==
    LET bet == inflight[w].bet
        draw == inflight[w].draw[1]
    IN  /\ inflight[w].pc = "insert"
        /\ bethistory' = create_document(bethistory,
              IF bet.op = "roulette"
              THEN [player_id |-> bet.player_id, game |-> "roulette",
                    amount |-> bet.amount, result |-> <<draw, colors(draw)>>,
                    payout |-> inflight[w].payout,
                    metadata |-> [bet_type |-> bet.bet_type, value |-> bet.value]]
              ELSE [player_id |-> bet.player_id, game |-> "slots",
                    amount |-> bet.amount, result |-> draw,
                    payout |-> inflight[w].payout,
                    metadata |-> [reels |-> draw, mult |-> payout_mult(draw)]])
        /\ inflight' = [inflight EXCEPT ![w].pc = "return",
              ![w].response = Some([kind |-> bet.op,
                                    payout |-> inflight[w].payout,
                                    balance |-> inflight[w].balance[1]])]
        /\ UNCHANGED <<players, rounding>>

InitRace ==
    /\ players = [p \in PlayerIds |-> create_player(p)]
    /\ bethistory = <<>>
    /\ sessions = <<>>
    /\ request = [op |-> "create_player", data |-> [nickname |-> "p1"]]
    /\ response = [kind |-> "player"]
    /\ rounding = {}
    /\ settled = <<>>
    /\ frame = None
    /\ inflight \in [1..Concurrent -> {bet_call(bet) : bet \in RaceBets}]

NextRace ==
    /\ \E w \in DOMAIN inflight :
         bet_find(w) \/ bet_check(w) \/ bet_play(w) \/ bet_update(w) \/ bet_insert(w)
    /\ UNCHANGED <<sessions, request, response, settled, frame>>

SpecRace == InitRace /\ [][NextRace]_vars

-----------------------------------------------------------------------------
(* The pips of a card that is no ace: 10 for a face card, else its number *)
Pips(card) ==
    IF rank_of(card) \in {"J", "Q", "K"} THEN 10 ELSE rank_index(rank_of(card))

RECURSIVE NonAceSum(_)
NonAceSum(hand) ==
    IF hand = <<>> THEN 0
    ELSE (IF rank_of(Head(hand)) = "A" THEN 0 ELSE Pips(Head(hand)))
         + NonAceSum(Tail(hand))

(* The totals of a hand, each ace counted as 11 or as 1 *)
Totals(hand) ==
    LET n == count_aces(hand)
    IN  {NonAceSum(hand) + 11 * k + (n - k) : k \in 0..n}

BestTotal(hand) ==
    LET fit == {t \in Totals(hand) : t <= 21}
    IN  IF fit # {}
        THEN CHOOSE t \in fit : \A u \in fit : u <= t
        ELSE NonAceSum(hand) + count_aces(hand)

Returned == frame # None /\ frame.pc = "return"

(* C11: hand_value returns for every hand, and what it returns is the     *)
(* greatest total of the hand, aces as 11 or 1, that is 21 or less, or    *)
(* the total with every ace as 1 when none is; the loop subtracts 10 at   *)
(* most once per ace.                                                     *)
C11_HandValueBestTotal ==
    /\ [](frame # None => frame.aces >= 0)
    /\ [](Returned => /\ frame.total = BestTotal(frame.hand)
                      /\ frame.total = hand_value(frame.hand))
    /\ <>Returned

C11_Witness ==
    /\ Returned
    /\ Len(frame.hand) = 3
    /\ count_aces(frame.hand) = 2
    /\ NonAceSum(frame.hand) = 9
    /\ frame.total = 21
    /\ frame.aces = 1

-----------------------------------------------------------------------------
(* A request past its funds check that has not written the balance yet *)
PassedNotCommitted(w) == inflight[w].pc \in {"play", "update"}

PassedCheck(w) == inflight[w].pc \in {"play", "update", "insert", "return"}

(* C12: with the balance read, the funds check and the balance write as   *)
(* separate steps of each request, the check is decided by the balance    *)
(* the request itself read, whatever the other request does in between,   *)
(* and the write stores that balance plus the payout; so two requests can *)
(* both be past the check with nothing written, on a balance that covers  *)
(* one stake only (C12_Witness).                                          *)
C12_CheckThenUpdateRace ==
    \A w \in DOMAIN inflight :
        LET call == inflight[w] IN
        /\ PassedCheck(w) =>
              /\ call.player # None
              /\ call.player[1].balance >= call.bet.amount
        /\ (call.pc = "raised" /\ call.draw = None /\ call.player # None
               /\ call.response = Some(HTTPException(400, "Insufficient balance")))
              => call.player[1].balance < call.bet.amount
        /\ call.pc \in {"insert", "return"} =>
              call.balance[1] \in Round2(call.player[1].balance + call.payout)

C12_Witness ==
    /\ \A w \in DOMAIN inflight : PassedNotCommitted(w)
    /\ Len(inflight) >= 2
    /\ inflight[1].bet.player_id = inflight[2].bet.player_id
    /\ bethistory = <<>>
    /\ Balance(inflight[1].bet.player_id) >= inflight[1].bet.amount
    /\ Balance(inflight[1].bet.player_id) >= inflight[2].bet.amount
    /\ Balance(inflight[1].bet.player_id)
         < inflight[1].bet.amount + inflight[2].bet.amount

-----------------------------------------------------------------------------
(* The colour of a pocket on the wheel: 0 is green; in 1..10 and 19..28   *)
(* the odd numbers are red, in 11..18 and 29..36 the even ones            *)
PocketColor(n) ==
    IF n = 0 THEN "green"
    ELSE IF (n \in 1..10 \cup 19..28) <=> (n % 2 = 1) THEN "red"
    ELSE "black"

(* C13: a roulette spin draws a number of 0..36, its colour is decided by *)
(* the number alone, a red or black bet pays +amount on its colour and    *)
(* -amount otherwise (0 included), a number bet pays +35 x amount on its  *)
(* number and -amount otherwise.                                          *)
C13_RoulettePayout ==
    [][(request'.op = "roulette" /\ response'.kind = "roulette") =>
        LET bet == request'.data
            r == response'
        IN  /\ r.result \in 0..36
            /\ r.color = PocketColor(r.result)
            /\ bet.bet_type \in {"red", "black"} =>
                  r.payout = IF PocketColor(r.result) = bet.bet_type
                             THEN bet.amount ELSE 0 - bet.amount
            /\ bet.bet_type = "number" =>
                  r.payout = IF bet.value = Some(r.result)
                             THEN 35 * bet.amount ELSE 0 - bet.amount
            /\ bethistory'[Len(bethistory')].payout = r.payout
            /\ bethistory'[Len(bethistory')].result = <<r.result, r.color>>]_vars

C13_Witness ==
    /\ request.op = "roulette"
    /\ request.data.bet_type = "number"
    /\ response.kind = "roulette"
    /\ response.result = 36
    /\ response.color = "red"
    /\ response.payout = 35 * request.data.amount
    /\ Len(bethistory) = 2
    /\ bethistory[1].metadata.bet_type = "black"
    /\ bethistory[1].result[1] = 35

(* The number of reels showing the symbol the most reels show *)
MostAlike(reels) ==
    LET n(sym) == Cardinality({i \in DOMAIN reels : reels[i] = sym})
    IN  CHOOSE k \in 1..Len(reels) :
            /\ \E i \in DOMAIN reels : n(reels[i]) = k
            /\ \A i \in DOMAIN reels : n(reels[i]) <= k

(* C14: a slots spin stops three reels on symbols of the six; three       *)
(* sevens multiply the stake by 20, three of another kind by 10, a pair   *)
(* by 2, three different symbols by 0, and the payout is                  *)
(* amount x multiplier - amount.                                          *)
C14_SlotsPayout ==
    [][(request'.op = "slots" /\ response'.kind = "slots") =>
        LET amount == request'.data.amount
            r == response'
            rec == bethistory'[Len(bethistory')]
            mult == rec.metadata.mult
        IN  /\ Len(r.reels) = 3
            /\ \A i \in 1..3 : \E k \in 1..6 : r.reels[i] = symbols[k]
            /\ mult = CASE MostAlike(r.reels) = 3 /\ r.reels[1] = "seven" -> 20
                         [] MostAlike(r.reels) = 3 /\ r.reels[1] # "seven" -> 10
                         [] MostAlike(r.reels) = 2 -> 2
                         [] MostAlike(r.reels) = 1 -> 0
            /\ r.payout = amount * mult - amount
            /\ rec.payout = r.payout
            /\ mult = 20 => r.payout = 19 * amount
            /\ mult = 2 => r.payout = amount
            /\ mult = 0 => r.payout = 0 - amount]_vars

C14_Witness ==
    /\ request.op = "slots"
    /\ response.kind = "slots"
    /\ response.reels = <<"seven", "seven", "seven">>
    /\ response.payout = 19 * request.data.amount
    /\ Len(bethistory) = 2
    /\ bethistory[1].metadata.reels = <<"lemon", "seven", "lemon">>

-----------------------------------------------------------------------------
(* A hand of two cards worth 21 *)
TwoCard21(hand) == Len(hand) = 2 /\ hand_value(hand) = 21

(* C15: start answers with status playing, the dealer's second card       *)
(* hidden, exactly when neither hand dealt is worth 21; when one is, it   *)
(* settles in the same request and answers finished; no stored session is *)
(* playing with a two-card 21 in a hand.                                  *)
C15_StartSettlesNaturals ==
    [][/\ (request'.op = "start" /\ Len(sessions') = Len(sessions) + 1) =>
            LET id == Len(sessions')
                session == sessions'[id]
                player_hand == session.player_hand
                dealt == SubSeq(session.dealer_hand, 1, 2)
                natural == TwoCard21(player_hand) \/ TwoCard21(dealt)
            IN  /\ response'.kind = "blackjack"
                /\ response'.session_id = id
                /\ response'.status = (IF natural THEN "finished" ELSE "playing")
                /\ session.status = response'.status
                /\ ~natural =>
                      /\ response'.player_hand = player_hand
                      /\ response'.dealer_hand = <<dealt[1], Hidden>>
                      /\ session.dealer_hand = dealt
                      /\ UNCHANGED <<players, bethistory>>
                /\ natural =>
                      /\ Len(bethistory') = Len(bethistory) + 1
                      /\ response'.result = bethistory'[Len(bethistory')].result
       /\ \A i \in DOMAIN sessions' :
            sessions'[i].status = "playing" =>
                /\ ~TwoCard21(sessions'[i].player_hand)
                /\ ~TwoCard21(sessions'[i].dealer_hand)]_vars

C15_Witness ==
    /\ request.op = "start"
    /\ response.kind = "blackjack"
    /\ response.status = "finished"
    /\ response.result = "dealer_blackjack"
    /\ Len(sessions) = 1
    /\ ~TwoCard21(sessions[1].player_hand)
    /\ Len(bethistory) = 2

-----------------------------------------------------------------------------
(* C16: a hit on a playing session moves one card, the top of the         *)
(* session's deck, to the end of the player's hand; over 21 the session   *)
(* is settled in the same request, result player_bust, payout -bet,       *)
(* status finished; otherwise it stays playing, the dealer's hand and the *)
(* balance as they were.                                                  *)
C16_HitDrawsOneCard ==
    [][\A data \in BlackjackActions :
        (/\ request' = [op |-> "hit", data |-> data]
         /\ data.session_id \in DOMAIN sessions
         /\ sessions[data.session_id].status = "playing")
        => LET old == sessions[data.session_id]
               new == sessions'[data.session_id]
               top == old.deck[Len(old.deck)]
           IN  /\ new.player_hand = Append(old.player_hand, top)
               /\ \A k \in DOMAIN new.deck : new.deck[k] # top
               /\ IF hand_value(new.player_hand) > 21
                  THEN /\ new.status = "finished"
                       /\ IsFinished(response')
                       /\ response'.result = "player_bust"
                       /\ response'.payout = 0 - old.bet
                       /\ response'.player_hand = new.player_hand
                       /\ Balance(old.player_id)' = Balance(old.player_id) - old.bet
                       /\ Len(bethistory') = Len(bethistory) + 1
                       /\ bethistory'[Len(bethistory')].result = "player_bust"
                  ELSE /\ new.status = "playing"
                       /\ response'.status = "playing"
                       /\ response'.player_hand = new.player_hand
                       /\ response'.dealer_hand = <<old.dealer_hand[1], Hidden>>
                       /\ new.dealer_hand = old.dealer_hand
                       /\ Len(new.deck) = Len(old.deck) - 1
                       /\ UNCHANGED <<players, bethistory>>]_vars

C16_Witness ==
    /\ request.op = "hit"
    /\ IsFinished(response)
    /\ response.result = "player_bust"
    /\ Len(sessions) = 1
    /\ Len(sessions[1].player_hand) = 4
    /\ Cardinality(BlackjackRecords) = 1
    /\ Len(bethistory) = 2

-----------------------------------------------------------------------------
(* C17: a finished session stays finished, and no request changes its     *)
(* player hand, its dealer hand or its deck.                               *)
C17_FinishedIsTerminal ==
    [][\A i \in DOMAIN sessions :
        sessions[i].status = "finished" =>
            /\ i \in DOMAIN sessions'
            /\ sessions'[i].status = "finished"
            /\ sessions'[i].player_hand = sessions[i].player_hand
            /\ sessions'[i].dealer_hand = sessions[i].dealer_hand
            /\ sessions'[i].deck = sessions[i].deck]_vars

C17_Witness ==
    /\ request.op = "stand"
    /\ IsFinished(response)
    /\ Len(sessions) = 1
    /\ sessions[1].status = "finished"
    /\ Len(sessions[1].dealer_hand) = 3
    /\ Cardinality(BlackjackRecords) = 2

-----------------------------------------------------------------------------
(* The cards of a session, wherever they are *)
CardsOf(session) == session.deck \o session.player_hand \o session.dealer_hand

(* C18: in every session the deck, the player's hand and the dealer's     *)
(* hand together hold each of the 52 cards exactly once.                  *)
C18_CardsConserved ==
    \A i \in DOMAIN sessions :
        /\ Len(CardsOf(sessions[i])) = 52
        /\ SetOf(CardsOf(sessions[i])) = SetOf(ordered_deck)

C18_Witness ==
    \E i \in DOMAIN sessions :
        /\ sessions[i].status = "finished"
        /\ Len(sessions[i].player_hand) = 3
        /\ Len(sessions[i].dealer_hand) = 3
        /\ Len(sessions[i].deck) = 46
        /\ Cardinality(BlackjackRecords) = 2

-----------------------------------------------------------------------------
(* The sum of the payouts recorded for a player *)
RECURSIVE PayoutSum(_, _)
PayoutSum(history, player_id) ==
    IF history = <<>> THEN 0
    ELSE (IF Head(history).player_id = player_id THEN Head(history).payout ELSE 0)
         + PayoutSum(Tail(history), player_id)

(* C19: the stored balance of every player is the 1000 chips it started   *)
(* with plus the sum of the payouts of its history records.               *)
C19_BalanceIsLedger ==
    \A p \in DOMAIN players :
        Balance(p) = create_player(p).balance + PayoutSum(bethistory, p)

-----------------------------------------------------------------------------
(* A session start answered with status playing: neither hand it dealt    *)
(* was worth 21                                                           *)
StartedPlaying(session) ==
    /\ ~TwoCard21(SubSeq(session.player_hand, 1, 2))
    /\ ~TwoCard21(SubSeq(session.dealer_hand, 1, 2))

(* C20: a hit or a stand on a session that start answered with status    *)
(* playing never returns, nor records, the result player_blackjack or     *)
(* dealer_blackjack.                                                      *)
C20_BlackjackOnlyAtStart ==
    [][\A data \in BlackjackActions :
        (/\ request'.op \in {"hit", "stand"}
         /\ request'.data = data
         /\ data.session_id \in DOMAIN sessions
         /\ StartedPlaying(sessions[data.session_id]))
        => /\ response'.kind = "blackjack"
           /\ response'.status = "finished" =>
                /\ response'.result \notin {"player_blackjack", "dealer_blackjack"}
                /\ Len(bethistory') = Len(bethistory) + 1
                /\ bethistory'[Len(bethistory')].result = response'.result]_vars

C20_Witness ==
    /\ request.op = "stand"
    /\ IsFinished(response)
    /\ Len(sessions) = 1
    /\ StartedPlaying(sessions[1])
    /\ Len(response.player_hand) = 3
    /\ response.p_val = 21
    /\ response.d_val < 21
    /\ response.result = "player_win"

=============================================================================
